---- MODULE Spec2Model ----
(***************************************************************************)
(* A model of dir-wand (src/dir_wand): the template copier.                *)
(*                                                                         *)
(* Strings are sequences of one-character strings, so that the regular     *)
(* expressions and str.format are computed character by character.  The    *)
(* file system is one name space (a function from canonical paths to       *)
(* nodes) holding both the template and the copies.                        *)
(***************************************************************************)
EXTENDS Integers, Sequences, FiniteSets, TLC

(***************************************************************************)
(* Characters                                                              *)
(***************************************************************************)
\* characters that neither \w nor [a-zA-Z0-9_] matches
NonWord == {"{", "}", "/", "-", " ", ".", "[", "]"}

Digits == {"0", "1", "2", "3", "4", "5", "6", "7", "8", "9"}

\* a letter that \w matches (Python 3 str patterns are Unicode) and
\* [a-zA-Z0-9_] does not; "U+00E9" stands for that one character
UnicodeWord == {"U+00E9"}

\* the class \w of utils.swap_in_str
IsWordChar(c) == c \notin NonWord

\* the class [a-zA-Z0-9_] of File.get_placeholders
IsAsciiWordChar(c) == c \notin NonWord /\ c \notin UnicodeWord

(***************************************************************************)
(* re.findall(r"\{(CLASS+)\}", s): the set of the names matched; CLASS is *)
(* [a-zA-Z0-9_] when ascii holds and \w otherwise.  Two                    *)
(* matches cannot overlap (each starts with "{", ends with "}" and has     *)
(* neither inside), so the leftmost scan finds every occurrence.           *)
(***************************************************************************)
findall(s, ascii) ==
    { SubSeq(s, ij[1] + 1, ij[2] - 1) :
        ij \in { p \in (1..Len(s)) \X (1..Len(s)) :
                   /\ p[1] + 1 < p[2]
                   /\ s[p[1]] = "{"
                   /\ s[p[2]] = "}"
                   /\ \A k \in (p[1] + 1)..(p[2] - 1) :
                        IF ascii THEN IsAsciiWordChar(s[k])
                                 ELSE IsWordChar(s[k]) } }

(***************************************************************************)
(* str.format with keyword arguments, on a string over the alphabet above  *)
(* (it has no colon, bang or dot inside a field): the result, or the       *)
(* exception of the first field or brace that fails, left to right.  A     *)
(* value is a string (an int of a range is its digits and no input indexes *)
(* it).                                                                    *)
(***************************************************************************)
Ok(v) == [err |-> "none", val |-> v]
Raise(e) == [err |-> e, val |-> <<>>]

\* the first index >= i of s holding a brace, 0 when there is none
RECURSIVE NextBrace(_, _)
NextBrace(s, i) ==
    IF i > Len(s) THEN 0
    ELSE IF s[i] \in {"{", "}"} THEN i
    ELSE NextBrace(s, i + 1)

\* the first index >= i of s holding c, 0 when there is none
RECURSIVE IndexOf(_, _, _)
IndexOf(s, c, i) ==
    IF i > Len(s) THEN 0
    ELSE IF s[i] = c THEN i
    ELSE IndexOf(s, c, i + 1)

\* the brace that ends the field whose name starts at i: the first brace
\* outside square brackets, 0 when the string ends before one
RECURSIVE FieldEnd(_, _)
FieldEnd(s, i) ==
    IF i > Len(s) THEN 0
    ELSE IF s[i] \in {"{", "}"} THEN i
    ELSE IF s[i] = "[" THEN
        IF IndexOf(s, "]", i + 1) = 0 THEN 0 ELSE FieldEnd(s, IndexOf(s, "]", i + 1) + 1)
    ELSE FieldEnd(s, i + 1)

AllDigits(name) == \A k \in 1..Len(name) : name[k] \in Digits

\* int(s) for a string of digits; -1 stands for the ValueError of int()
RECURSIVE int_from(_, _, _)
int_from(s, k, acc) ==
    IF k > Len(s) THEN acc
    ELSE int_from(s, k + 1, 10 * acc + (CHOOSE d \in 0..9 : ToString(d) = s[k]))

int(s) == IF s = <<>> \/ ~AllDigits(s) THEN -1 ELSE int_from(s, 1, 0)

\* the accessors that follow the argument's name, rest starting with "[":
\* value[index] for each one, in turn
RECURSIVE getitems(_, _)
\* value[index], then the accessors after the bracket that closes index
getitem(value, index, after) ==
    IF index = <<>> THEN Raise("ValueError: Empty attribute")
    ELSE IF ~AllDigits(index) THEN Raise("TypeError: string indices must be integers")
    ELSE IF int(index) >= Len(value) THEN Raise("IndexError")
    ELSE getitems(<<value[int(index) + 1]>>, after)

getitems(value, rest) ==
    IF rest = <<>> THEN Ok(value)
    ELSE IF rest[1] # "[" THEN Raise("ValueError: Only '.' or '[' may follow ']'")
    ELSE getitem(value, SubSeq(rest, 2, IndexOf(rest, "]", 2) - 1),
                 SubSeq(rest, IndexOf(rest, "]", 2) + 1, Len(rest)))

\* the value of one replacement field
get_field(name, swaps) ==
    LET open == IndexOf(name, "[", 1)
        first == IF open = 0 THEN name ELSE SubSeq(name, 1, open - 1)
    IN  IF AllDigits(first) THEN Raise("IndexError")
        ELSE IF first \notin DOMAIN swaps THEN Raise("KeyError")
        ELSE IF open = 0 THEN Ok(swaps[first])
        ELSE getitems(swaps[first], SubSeq(name, open, Len(name)))

RECURSIVE format_from(_, _, _, _)
format_from(s, i, swaps, acc) ==
    IF i > Len(s) THEN Ok(acc)
    ELSE IF s[i] = "{" THEN
        IF i = Len(s) THEN Raise("ValueError: Single '{'")
        ELSE IF s[i + 1] = "{" THEN format_from(s, i + 2, swaps, Append(acc, "{"))
        ELSE LET j == FieldEnd(s, i + 1) IN
             IF j = 0 THEN Raise("ValueError: expected '}'")
             ELSE IF s[j] = "{" THEN Raise("ValueError: unexpected '{'")
             ELSE LET field == get_field(SubSeq(s, i + 1, j - 1), swaps) IN
                  IF field.err # "none" THEN field
                  ELSE format_from(s, j + 1, swaps, acc \o field.val)
    ELSE IF s[i] = "}" THEN
        IF i = Len(s) THEN Raise("ValueError: Single '}'")
        ELSE IF s[i + 1] = "}" THEN format_from(s, i + 2, swaps, Append(acc, "}"))
        ELSE Raise("ValueError: Single '}'")
    ELSE format_from(s, i + 1, swaps, Append(acc, s[i]))

format(s, swaps) == format_from(s, 1, swaps, <<>>)

\* swap_in_str that leaves the token of a name it has no value for as it is
swap_in_str_lenient(string, swaps) ==
    LET swap_in_string == findall(string, FALSE)
        known == [name \in swap_in_string \cup DOMAIN swaps |->
                    IF name \in DOMAIN swaps THEN swaps[name]
                    ELSE <<"{">> \o name \o <<"}">>]
        r == format(string, known)
    IN  [err |-> r.err, val |-> r.val, counted |-> swap_in_string, named |-> {}]

(***************************************************************************)
(* utils.swap_in_str: counted holds the names whose swap counter the call  *)
(* increments (it does so before it checks that none is missing), named    *)
(* the names the message of its ValueError is formatted with.              *)
(***************************************************************************)
swap_in_str(string, swaps) ==
    LET swap_in_string == findall(string, FALSE)
        missing_swaps == swap_in_string \ DOMAIN swaps
        r == IF missing_swaps # {} THEN Raise("ValueError: Missing swaps")
             ELSE format(string, swaps)
    IN  [err |-> r.err, val |-> r.val, counted |-> swap_in_string,
         named |-> missing_swaps]

(***************************************************************************)
(* Paths.  A path is a string; the file system is keyed by the sequence of *)
(* the path's components with "" and "." dropped (all paths are relative   *)
(* to the working directory, which is the empty sequence).                 *)
(***************************************************************************)
RECURSIVE split_from(_, _, _, _, _)
split_from(s, sep, i, cur, acc) ==
    IF i > Len(s) THEN Append(acc, cur)
    ELSE IF s[i] = sep THEN split_from(s, sep, i + 1, <<>>, Append(acc, cur))
    ELSE split_from(s, sep, i + 1, Append(cur, s[i]), acc)

\* str.split(sep)
split(s, sep) == split_from(s, sep, 1, <<>>, <<>>)

Split(s) == split(s, "/")

IsRealComponent(c) == c # <<>> /\ c # <<".">>

Components(s) == SelectSeq(Split(s), IsRealComponent)

\* os.path.basename
basename(p) == Split(p)[Len(Split(p))]

\* os.path.join(a, b) for a relative b
join(a, b) ==
    IF a = <<>> \/ a[Len(a)] = "/" THEN a \o b ELSE a \o <<"/">> \o b

\* path += "/" if not path.endswith("/") else ""; path = path + name
with_name(path, name) ==
    (IF path # <<>> /\ path[Len(path)] = "/" THEN path ELSE Append(path, "/")) \o name

Parent(q) == SubSeq(q, 1, Len(q) - 1)

(***************************************************************************)
(* The file system.  A node is a directory, a regular file or a symbolic   *)
(* link; a regular file has bytes (lines, and text: whether they decode)   *)
(* and permission bits; a link has a target string.                        *)
(***************************************************************************)
\* 0o644, 0o755, 0o600: the permission bits as sets
Mode644 == {"ur", "uw", "gr", "or"}

Mode755 == {"ur", "uw", "ux", "gr", "gx", "or", "ox"}

Mode600 == {"ur", "uw"}

\* the mode of every symbolic link
Mode777 == {"ur", "uw", "ux", "gr", "gw", "gx", "or", "ow", "ox"}

\* what open(path, "w") and os.makedirs give a node they create (umask 022)
CreateMode == Mode644

CreateDirMode == Mode755

DirNode == [kind |-> "dir", lines |-> <<>>, text |-> FALSE, mode |-> CreateDirMode,
            target |-> <<>>]

FileNode(lines, text, mode) ==
    [kind |-> "file", lines |-> lines, text |-> text, mode |-> mode, target |-> <<>>]

LinkNode(target) ==
    [kind |-> "link", lines |-> <<>>, text |-> FALSE, mode |-> Mode777, target |-> target]

Exists(fs, q) == q = <<>> \/ q \in DOMAIN fs

KindOf(fs, q) ==
    IF q = <<>> THEN "dir" ELSE IF q \in DOMAIN fs THEN fs[q].kind ELSE "none"

\* how many links one resolution follows before it gives up (ELOOP)
MaxLinkDepth == 4

\* the node a path names: cur is resolved, rest is still to walk; a link is
\* followed unless it is the last component and followLast is false
RECURSIVE Resolve(_, _, _, _, _)
Resolve(fs, cur, rest, followLast, fuel) ==
    IF rest = <<>> THEN cur
    ELSE IF Head(rest) = <<".", ".">>
    THEN Resolve(fs, IF cur = <<>> THEN cur ELSE Parent(cur), Tail(rest), followLast, fuel)
    ELSE LET cand == Append(cur, Head(rest)) IN
         IF /\ KindOf(fs, cand) = "link"
            /\ (Tail(rest) # <<>> \/ followLast)
            /\ fuel > 0
         THEN Resolve(fs, cur, Components(fs[cand].target) \o Tail(rest),
                      followLast, fuel - 1)
         ELSE Resolve(fs, cand, Tail(rest), followLast, fuel)

\* the node open(), stat(), isdir() reach; the one lstat(), readlink() reach
Real(fs, p) == Resolve(fs, <<>>, Components(p), TRUE, MaxLinkDepth)

LReal(fs, p) == Resolve(fs, <<>>, Components(p), FALSE, MaxLinkDepth)

isdir(fs, p) == KindOf(fs, Real(fs, p)) = "dir"

isfile(fs, p) == KindOf(fs, Real(fs, p)) = "file"

islink(fs, p) == KindOf(fs, LReal(fs, p)) = "link"

\* os.access(path, os.X_OK) for the owner of the file
access_x(fs, p) == Exists(fs, Real(fs, p)) /\ Real(fs, p) # <<>> /\ "ux" \in fs[Real(fs, p)].mode

FsOk(fs) == [err |-> "none", fs |-> fs]
FsRaise(e, fs) == [err |-> e, fs |-> fs]

Put(fs, q, node) == [x \in DOMAIN fs \cup {q} |-> IF x = q THEN node ELSE fs[x]]

\* open(p, "r") / open(p, "rb"): the error of opening p for reading
open_read_err(fs, p, textMode) ==
    LET q == Real(fs, p) IN
    IF KindOf(fs, q) = "none" THEN "FileNotFoundError"
    ELSE IF KindOf(fs, q) = "dir" THEN "IsADirectoryError"
    ELSE IF KindOf(fs, q) = "link" THEN "OSError: ELOOP"
    ELSE IF "ur" \notin fs[q].mode THEN "PermissionError"
    ELSE IF textMode /\ ~fs[q].text THEN "UnicodeDecodeError"
    ELSE "none"

\* open(p, "w") / open(p, "wb"): p is truncated, or created with CreateMode
open_write(fs, p) ==
    LET q == Real(fs, p) IN
    IF KindOf(fs, q) = "dir" THEN FsRaise("IsADirectoryError", fs)
    ELSE IF KindOf(fs, q) = "link" THEN FsRaise("OSError: ELOOP", fs)
    ELSE IF KindOf(fs, q) = "file" THEN
        IF "uw" \notin fs[q].mode THEN FsRaise("PermissionError", fs)
        ELSE FsOk(Put(fs, q, [fs[q] EXCEPT !.lines = <<>>, !.text = TRUE]))
    ELSE IF KindOf(fs, Parent(q)) # "dir" THEN FsRaise("FileNotFoundError", fs)
    ELSE FsOk(Put(fs, q, FileNode(<<>>, TRUE, CreateMode)))

\* file.write / file.writelines on a file that open_write opened
write(fs, p, lines, text) ==
    Put(fs, Real(fs, p), [fs[Real(fs, p)] EXCEPT !.lines = lines, !.text = text])

\* os.symlink(link, path)
symlink(fs, link, p) ==
    LET q == LReal(fs, p) IN
    IF Exists(fs, q) THEN FsRaise("FileExistsError", fs)
    ELSE IF KindOf(fs, Parent(q)) # "dir" THEN FsRaise("FileNotFoundError", fs)
    ELSE FsOk(Put(fs, q, LinkNode(link)))

\* os.makedirs(path, exist_ok=True): every missing prefix of path is created
RECURSIVE makedirs_from(_, _, _)
makedirs_from(fs, comps, k) ==
    IF k > Len(comps) THEN FsOk(fs)
    ELSE LET prefix == SubSeq(comps, 1, k)
             q == Resolve(fs, <<>>, prefix, TRUE, MaxLinkDepth)
             l == Resolve(fs, <<>>, prefix, FALSE, MaxLinkDepth)
         IN  IF KindOf(fs, q) = "dir" THEN makedirs_from(fs, comps, k + 1)
             ELSE IF KindOf(fs, q) # "none" \/ KindOf(fs, l) # "none"
             THEN FsRaise(IF k = Len(comps) THEN "FileExistsError"
                          ELSE "NotADirectoryError", fs)
             ELSE makedirs_from(Put(fs, q, DirNode), comps, k + 1)

makedirs(fs, p) == makedirs_from(fs, Components(p), 1)

(***************************************************************************)
(* Logger: counts and swap_counts are dictionaries that start empty.       *)
(***************************************************************************)
Get(d, k) == IF k \in DOMAIN d THEN d[k] ELSE 0

\* a wrapper that writes 1 whatever the counter holds
count_overwriting(counts, key) == (key :> 1) @@ counts

\* Logger.count's wrapper, after func returned: self.counts[key] += 1
count(counts, key) ==
    [k \in DOMAIN counts \cup {key} |-> Get(counts, k) + (IF k = key THEN 1 ELSE 0)]

\* swap_in_str's loop: Logger().swap_counts[swap] += 1 for every name found
count_swaps(swap_counts, names) ==
    [k \in DOMAIN swap_counts \cup names |->
        Get(swap_counts, k) + (IF k \in names THEN 1 ELSE 0)]

\* the state an operation works on, and what it returns
World(fs, swap_counts, counts) == [fs |-> fs, swap_counts |-> swap_counts, counts |-> counts]

\* named: the names the message of the exception is formatted with
Done(w) == [err |-> "none", w |-> w, named |-> {}]
Fail(e, w) == [err |-> e, w |-> w, named |-> {}]
FailNaming(e, named, w) == [err |-> e, w |-> w, named |-> named]

(***************************************************************************)
(* File: discovery                                                         *)
(***************************************************************************)
\* is_text that takes every file that opens for text
is_text_always(fs, path) == open_read_err(fs, path, FALSE) = "none"

\* File.is_text: open(self.path, "r").read() does not raise UnicodeDecodeError
is_text(fs, path) == open_read_err(fs, path, TRUE) # "UnicodeDecodeError"

\* file.readlines() of a file that opened
readlines(fs, path) == fs[Real(fs, path)].lines

\* the names File.get_placeholders finds in one line
line_matches(line) == findall(line, TRUE)

\* File.__init__ and get_placeholders: matches is a list, never None, so the
\* index of every line is stored (indices are 1-based here, 0-based there)
File(fs, path) ==
    IF ~is_text(fs, path)
    THEN [_placeholders |-> {}, _place_holder_lines |-> <<>>]
    ELSE LET lines == readlines(fs, path) IN
         [_placeholders |-> UNION { line_matches(lines[k]) : k \in 1..Len(lines) },
          _place_holder_lines |-> [k \in 1..Len(lines) |-> k]]

has_placeholders(f) == f._placeholders # {}

(***************************************************************************)
(* Directory: discovery.  listing[d] is what os.listdir returns for d.     *)
(***************************************************************************)
listdir(fs, listing, path) ==
    IF Real(fs, path) \in DOMAIN listing THEN listing[Real(fs, path)] ELSE <<>>

EmptyTree == [dirs |-> <<>>, files |-> <<>>]

RECURSIVE entries_of(_, _, _, _)
\* the paths among paths[k..] that are directories (dirs) or regular files
entries_of(fs, paths, dirs, k) ==
    IF k > Len(paths) THEN <<>>
    ELSE LET p == paths[k]
             keep == IF dirs THEN isdir(fs, p) ELSE ~isdir(fs, p) /\ isfile(fs, p)
         IN  (IF keep THEN <<p>> ELSE <<>>) \o entries_of(fs, paths, dirs, k + 1)

RECURSIVE unpack_contents(_, _, _)
RECURSIVE unpack_all(_, _, _, _)
\* the Directory at path with everything below it
unpack_contents(fs, listing, path) ==
    LET contents == listdir(fs, listing, path)
        paths == [k \in 1..Len(contents) |-> join(path, contents[k])]
        children == entries_of(fs, paths, TRUE, 1)
        files == entries_of(fs, paths, FALSE, 1)
        below == unpack_all(fs, listing, children, 1)
    IN  [dirs  |-> (path :> [children |-> children, files |-> files]) @@ below.dirs,
         files |-> [f \in {files[k] : k \in 1..Len(files)} |-> File(fs, f)] @@ below.files]

unpack_all(fs, listing, children, k) ==
    IF k > Len(children) THEN EmptyTree
    ELSE LET one == unpack_contents(fs, listing, children[k])
             rest == unpack_all(fs, listing, children, k + 1)
         IN  [dirs |-> one.dirs @@ rest.dirs, files |-> one.files @@ rest.files]

(***************************************************************************)
(* File: the four ways to copy                                             *)
(***************************************************************************)
\* os.chmod(path, os.stat(path).st_mode): the mode is read from path itself
chmod_from_own_stat(fs, path) ==
    LET q == Real(fs, path) IN [fs EXCEPT ![q].mode = fs[q].mode]

\* with open(self.path, "rb") as file: with open(path, "wb") as new_file:
\*     new_file.write(file.read())
\* (path is truncated before self.path is read)
copy_bytes(fs, src, path) ==
    IF open_read_err(fs, src, FALSE) # "none" THEN FsRaise(open_read_err(fs, src, FALSE), fs)
    ELSE LET opened == open_write(fs, path) IN
         IF opened.err # "none" THEN opened
         ELSE LET from == opened.fs[Real(opened.fs, src)] IN
              FsOk(write(opened.fs, path, from.lines, from.text))

_make_softlink_copy(w, src, path) ==
    LET made == symlink(w.fs, w.fs[LReal(w.fs, src)].target, path) IN
    IF made.err # "none" THEN Fail(made.err, w)
    ELSE Done([w EXCEPT !.fs = made.fs, !.counts = count(w.counts, "file")])

_make_executable_copy(w, src, path) ==
    LET copied == copy_bytes(w.fs, src, path) IN
    IF copied.err # "none" THEN Fail(copied.err, [w EXCEPT !.fs = copied.fs])
    ELSE Done([w EXCEPT !.fs = chmod_from_own_stat(copied.fs, path),
                        !.counts = count(w.counts, "file")])

_make_simple_copy(w, src, path) ==
    LET copied == copy_bytes(w.fs, src, path) IN
    IF copied.err # "none" THEN Fail(copied.err, [w EXCEPT !.fs = copied.fs])
    ELSE Done([w EXCEPT !.fs = copied.fs, !.counts = count(w.counts, "file")])

\* the loop over self._place_holder_lines, from its k-th index on
RECURSIVE swap_lines(_, _, _, _, _)
swap_lines(lines, indices, k, swaps, swap_counts) ==
    IF k > Len(indices)
    THEN [err |-> "none", lines |-> lines, swap_counts |-> swap_counts, named |-> {}]
    ELSE IF indices[k] > Len(lines)
    THEN [err |-> "IndexError", lines |-> lines, swap_counts |-> swap_counts, named |-> {}]
    ELSE LET r == swap_in_str(lines[indices[k]], swaps)
             counted == count_swaps(swap_counts, r.counted)
         IN  IF r.err # "none"
             THEN [err |-> r.err, lines |-> lines, swap_counts |-> counted,
                   named |-> r.named]
             ELSE swap_lines([lines EXCEPT ![indices[k]] = r.val], indices, k + 1,
                             swaps, counted)

\* _make_copy_with_placeholders that opens the new file first and swaps the
\* lines while it writes them
_make_copy_opening_first(w, f, src, path, swaps) ==
    IF open_read_err(w.fs, src, TRUE) # "none"
    THEN Fail(open_read_err(w.fs, src, TRUE), w)
    ELSE LET opened == open_write(w.fs, path) IN
         IF opened.err # "none" THEN Fail(opened.err, w)
         ELSE LET swapped == swap_lines(readlines(w.fs, src), f._place_holder_lines, 1,
                                        swaps, w.swap_counts)
                  w1 == [w EXCEPT !.swap_counts = swapped.swap_counts, !.fs = opened.fs]
              IN  IF swapped.err # "none" THEN FailNaming(swapped.err, swapped.named, w1)
                  ELSE Done([w1 EXCEPT
                        !.fs = chmod_from_own_stat(
                                   write(opened.fs, path, swapped.lines, TRUE), path),
                        !.counts = count(w1.counts, "file")])

_make_copy_with_placeholders(w, f, src, path, swaps) ==
    LET missing == f._placeholders \ DOMAIN swaps IN
    IF missing # {} THEN FailNaming("ValueError: Missing placeholders", missing, w)
    ELSE IF open_read_err(w.fs, src, TRUE) # "none"
    THEN Fail(open_read_err(w.fs, src, TRUE), w)
    ELSE LET swapped == swap_lines(readlines(w.fs, src), f._place_holder_lines, 1,
                                   swaps, w.swap_counts)
             w1 == [w EXCEPT !.swap_counts = swapped.swap_counts]
         IN  IF swapped.err # "none" THEN FailNaming(swapped.err, swapped.named, w1)
             ELSE LET opened == open_write(w1.fs, path) IN
                  IF opened.err # "none" THEN Fail(opened.err, w1)
                  ELSE Done([w1 EXCEPT
                        !.fs = chmod_from_own_stat(
                                   write(opened.fs, path, swapped.lines, TRUE), path),
                        !.counts = count(w1.counts, "file")])

\* File.make_copy_with_swaps
File_make_copy_with_swaps(w, f, src, path, swaps) ==
    LET r == swap_in_str(with_name(path, basename(src)), swaps)
        w1 == [w EXCEPT !.swap_counts = count_swaps(w.swap_counts, r.counted)]
    IN  IF r.err # "none" THEN FailNaming(r.err, r.named, w1)
        ELSE IF has_placeholders(f) THEN _make_copy_with_placeholders(w1, f, src, r.val, swaps)
        ELSE IF islink(w1.fs, src) THEN _make_softlink_copy(w1, src, r.val)
        ELSE IF access_x(w1.fs, src) THEN _make_executable_copy(w1, src, r.val)
        ELSE _make_simple_copy(w1, src, r.val)

(***************************************************************************)
(* Directory: the copy of the directory itself; its files and children are *)
(* the caller's next steps                                                 *)
(***************************************************************************)
_make_dir_copy(w, path) ==
    LET made == makedirs(w.fs, path) IN
    IF made.err # "none" THEN Fail(made.err, [w EXCEPT !.fs = made.fs])
    ELSE Done([w EXCEPT !.fs = made.fs, !.counts = count(w.counts, "directory")])

\* Directory.make_copy_with_swaps up to and including self._make_dir_copy;
\* path is the new directory when there is no error
Directory_make_copy_with_swaps(w, src, path, swaps) ==
    LET r == swap_in_str(with_name(path, basename(src)), swaps)
        w1 == [w EXCEPT !.swap_counts = count_swaps(w.swap_counts, r.counted)]
    IN  IF r.err # "none" THEN [err |-> r.err, w |-> w1, path |-> <<>>, named |-> r.named]
        ELSE [err |-> _make_dir_copy(w1, r.val).err, w |-> _make_dir_copy(w1, r.val).w,
              path |-> r.val, named |-> {}]

(***************************************************************************)
(* Template: construction                                                  *)
(***************************************************************************)
\* str(n) for n >= 0, which is how str.format renders an int
RECURSIVE str(_)
str(n) == IF n < 10 THEN <<ToString(n)>> ELSE Append(str(n \div 10), ToString(n % 10))

\* list(range(a, b + 1)), each int in its string form
RECURSIVE range_list(_, _)
range_list(a, b) == IF a > b THEN <<>> ELSE <<str(a)>> \o range_list(a + 1, b)

\* the values a caller passes for one key: a list, a string or None
ListValue(list) == [type |-> "list", list |-> list, string |-> <<>>]
StrValue(string) == [type |-> "str", list |-> <<>>, string |-> string]
None == [type |-> "None", list |-> <<>>, string |-> <<>>]

\* one turn of the loop of Template.parse_swaps: the list for a value
parse_swap_value(value) ==
    IF value.type = "list" THEN [err |-> "none", list |-> value.list]
    ELSE IF value.type = "None" THEN [err |-> "TypeError", list |-> <<>>]
    ELSE IF "-" \notin {value.string[k] : k \in 1..Len(value.string)}
    THEN [err |-> "ValueError: Invalid swap value", list |-> <<>>]
    ELSE LET parts == split(value.string, "-") IN
         IF Len(parts) # 2 THEN [err |-> "ValueError: unpack", list |-> <<>>]
         ELSE IF int(parts[1]) < 0 \/ int(parts[2]) < 0
         THEN [err |-> "ValueError: int()", list |-> <<>>]
         ELSE [err |-> "none", list |-> range_list(int(parts[1]), int(parts[2]))]

\* Template.parse_swaps: swaps is the keyword dictionary in insertion order,
\* a sequence of [key, value]; the result has a list for every key
RECURSIVE parse_values(_, _)
parse_values(swaps, k) ==
    IF k > Len(swaps) THEN [err |-> "none", swaps |-> swaps]
    ELSE LET one == parse_swap_value(swaps[k].value) IN
         IF one.err # "none" THEN [err |-> one.err, swaps |-> <<>>]
         ELSE parse_values([swaps EXCEPT ![k].value = one.list], k + 1)

\* parse_swaps without the check of the lengths
parse_swaps_unchecked(swaps) == parse_values(swaps, 1)

parse_swaps(swaps) ==
    LET parsed == parse_values(swaps, 1)
        lengths == { Len(parsed.swaps[k].value) : k \in 1..Len(parsed.swaps) }
    IN  IF parsed.err # "none" THEN parsed
        ELSE IF Cardinality(lengths) > 1
        THEN [err |-> "ValueError: All swaps must have the same number of elements",
              swaps |-> <<>>]
        ELSE parsed

\* a Template; err is the exception of __init__, "none" when it returned
TemplateObject(err, root, directory, swaps, nswaps) ==
    [err |-> err, root_path |-> root, directory |-> directory, swaps |-> swaps,
     nswaps |-> nswaps]

NoTemplate == TemplateObject("not constructed", <<>>, EmptyTree, <<>>, 0)

\* Template.__init__
Template(fs, listing, root, swaps) ==
    LET directory == unpack_contents(fs, listing, root)
        parsed == parse_swaps(swaps)
    IN  IF parsed.err # "none" THEN TemplateObject(parsed.err, root, directory, <<>>, 0)
        ELSE IF parsed.swaps = <<>> THEN TemplateObject("IndexError", root, directory, <<>>, 0)
        ELSE TemplateObject("none", root, directory, parsed.swaps,
                            Len(parsed.swaps[1].value))

RECURSIVE power(_, _)
power(b, e) == IF e = 0 THEN 1 ELSE b * power(b, e - 1)

\* make_copies that takes every combination of the values: with K keys of
\* nswaps values each, combination n has, for the k-th key, the value at the
\* k-th digit of n written in base nswaps
expand_product(swaps, nswaps) ==
    LET K == Len(swaps)
        digit(n, k) == (((n - 1) \div power(nswaps, K - k)) % nswaps) + 1
        index(key) == CHOOSE k \in 1..K : swaps[k].key = key
    IN  [err |-> "none",
         maps |-> [n \in 1..power(nswaps, K) |->
                     [key \in {swaps[k].key : k \in 1..K} |->
                       swaps[index(key)].value[digit(n, index(key))]]]]

\* the list comprehension of make_copies: one dictionary per index, or the
\* IndexError of a list that is shorter than the first one
expand(swaps, nswaps) ==
    IF \E k \in 1..Len(swaps) : Len(swaps[k].value) < nswaps
    THEN [err |-> "IndexError", maps |-> <<>>]
    ELSE [err |-> "none",
          maps |-> [n \in 1..nswaps |->
                     [key \in {swaps[k].key : k \in 1..Len(swaps)} |->
                       swaps[CHOOSE k \in 1..Len(swaps) : swaps[k].key = key].value[n]]]]

(***************************************************************************)
(* CommandRunner                                                           *)
(***************************************************************************)
\* CommandRunner.__init__ and get_placeholders
CommandRunner(command) ==
    [command |-> command, _placeholders |-> findall(command, TRUE)]

NoRunner == [command |-> <<>>, _placeholders |-> {}]

\* a thread of self.threads: the command it runs, whether run() has ended,
\* and the status os.system returned ("none" until then)
Thread(command) == [command |-> command, state |-> "running", status |-> "none"]

\* what os.system(command) may do: return 0, return another status, raise
Outcomes == {"0", "256", "OSError"}

\* run() that tries the command again when it failed: the thread goes on
run_retrying(thread, outcome) ==
    [thread |-> IF outcome = "0"
                THEN [thread EXCEPT !.state = "finished", !.status = outcome]
                ELSE [thread EXCEPT !.status = outcome],
     printed |-> IF outcome = "0" THEN <<>> ELSE << [command |-> thread.command,
                                                    status |-> outcome] >>]

\* run() of one thread with the outcome of os.system: every exception is
\* caught, a failure is printed
run(thread, outcome) ==
    [thread |-> [thread EXCEPT !.state = "finished", !.status = outcome],
     printed |-> IF outcome = "0" THEN <<>> ELSE << [command |-> thread.command,
                                                    status |-> outcome] >>]

\* CommandRunner.run_command without its decorator: the exception, whether
\* a thread was started and with what command, the names swap_in_str counted
run_command(runner, swaps) ==
    IF runner.command = <<>>
    THEN [err |-> "none", started |-> FALSE, command |-> <<>>, counted |-> {},
          named |-> {}]
    ELSE IF runner._placeholders \ DOMAIN swaps # {}
    THEN [err |-> "ValueError: Missing placeholders", started |-> FALSE,
          command |-> <<>>, counted |-> {},
          named |-> runner._placeholders \ DOMAIN swaps]
    ELSE LET r == swap_in_str(runner.command, swaps) IN
         [err |-> r.err, started |-> r.err = "none", command |-> r.val,
          counted |-> r.counted, named |-> r.named]

\* the list comprehension of run_command_for_all_swaps: swaps is the keyword
\* dictionary in insertion order, nswaps the length of its first list
unpack_swaps(swaps, nswaps) ==
    IF \E k \in 1..Len(swaps) : Len(swaps[k].value) < nswaps
    THEN [err |-> "IndexError", maps |-> <<>>]
    ELSE [err |-> "none",
          maps |-> [n \in 1..nswaps |->
                     [key \in {swaps[k].key : k \in 1..Len(swaps)} |->
                       swaps[CHOOSE k \in 1..Len(swaps) : swaps[k].key = key].value[n]]]]

\* thread.join() for every thread, in the order of the list: joined is the
\* number of threads the loop is past; the next join returns when the
\* thread has finished
join_next(threads, joined) ==
    IF joined < Len(threads) /\ threads[joined + 1].state = "finished"
    THEN joined + 1 ELSE joined

(***************************************************************************)
(* swapfile: the combinations of independent lists.  swaps is the          *)
(* dictionary in insertion order, each value a list.                       *)
(***************************************************************************)
\* itertools.product(*value_lists) of the lists from the k-th on, taking the
\* k-th list from its n-th value on: the tuples, the last list's value
\* changing fastest
RECURSIVE product(_, _, _)
product(value_lists, k, n) ==
    IF k > Len(value_lists) THEN << <<>> >>
    ELSE IF n > Len(value_lists[k]) THEN <<>>
    ELSE [m \in 1..Len(product(value_lists, k + 1, 1)) |->
             <<value_lists[k][n]>> \o product(value_lists, k + 1, 1)[m]]
         \o product(value_lists, k, n + 1)

\* dict(zip(keys, combination))
zip_dict(keys, combination) ==
    [key \in {keys[k] : k \in 1..Len(keys)} |->
        combination[CHOOSE k \in 1..Len(keys) : keys[k] = key]]

\* all_combinations: the dictionaries it yields, in order
all_combinations(swaps) ==
    LET keys == [k \in 1..Len(swaps) |-> swaps[k].key]
        value_lists == [k \in 1..Len(swaps) |-> swaps[k].value]
    IN  [n \in 1..Len(product(value_lists, 1, 1)) |->
            zip_dict(keys, product(value_lists, 1, 1)[n])]

\* transposed after the combinations from the n-th on were added: a key
\* gets its entry when the first combination that has it is added
RECURSIVE transpose(_, _, _)
transpose(transposed, combos, n) ==
    IF n > Len(combos) THEN transposed
    ELSE transpose([key \in DOMAIN transposed \cup DOMAIN combos[n] |->
                       [list |-> IF key \in DOMAIN transposed
                                 THEN Append(transposed[key].list, combos[n][key])
                                 ELSE <<combos[n][key]>>]],
                   combos, n + 1)

get_swap_combos(swaps) == transpose(<<>>, all_combinations(swaps), 1)

(***************************************************************************)
(* Bounds and inputs                                                       *)
(***************************************************************************)
\* the most entries the template's root directory holds
MaxEntries == 2

\* the most values a swap list holds
MaxLen == 2

PX == <<"{", "x", "}">>

\* what the template's root directory may hold: name, the nodes by their
\* path below the root, the listing of the directories among them
Entry(name, node) ==
    [name |-> name, nodes |-> (<<name>> :> node), listing |-> <<>>]

Catalogue ==
    << \* a script with a placeholder
       Entry(<<"a">>, FileNode(<< <<"h">> \o PX, <<"k">> >>, TRUE, Mode755)),
       \* a private text file with a placeholder and doubled braces
       Entry(<<"s">>, FileNode(<< PX, <<"{">> \o PX \o <<"}">> >>, TRUE, Mode600)),
       \* a placeholder in the name only
       Entry(<<"b">> \o PX, FileNode(<< <<"k">> >>, TRUE, Mode644)),
       \* bytes that do not decode, holding the bytes of "{x}"
       Entry(<<"c">>, FileNode(<< PX >>, FALSE, Mode644)),
       \* the same, executable
       Entry(<<"q">>, FileNode(<< PX >>, FALSE, Mode755)),
       \* a plain text file
       Entry(<<"p">>, FileNode(<< <<"k">> >>, TRUE, Mode600)),
       \* a text file with a placeholder and, on a line of its own, a brace
       Entry(<<"t">>, FileNode(<< PX, <<"}">> >>, TRUE, Mode644)),
       \* links to a file with a placeholder, to a file without, to a
       \* directory, to nothing
       Entry(<<"l">>, LinkNode(<<".", ".", "/", "w">>)),
       Entry(<<"m">>, LinkNode(<<".", ".", "/", "v">>)),
       Entry(<<"n">>, LinkNode(<<".", ".", "/", "u">>)),
       Entry(<<"j">>, LinkNode(<<".", ".", "/", "z">>)),
       \* a sub-directory with a placeholder in its name and in its file
       [name |-> <<"d">> \o PX,
        nodes |-> (<< <<"d">> \o PX >> :> DirNode) @@
                  (<< <<"d">> \o PX, <<"g">> >> :> FileNode(<< PX >>, TRUE, Mode644)),
        listing |-> (<< <<"d">> \o PX >> :> << <<"g">> >>)] >>

\* the names the template's root directory may have
RootNames == { <<"r", "{", "i", "}">>, <<"r">>, <<"r", "{", "{", "i", "}", "}">> }

\* what the links of the catalogue point at, next to the template
Outside ==
    (<< <<"w">> >> :> FileNode(<< PX >>, TRUE, Mode644)) @@
    (<< <<"v">> >> :> FileNode(<< <<"k">> >>, TRUE, Mode644)) @@
    (<< <<"u">> >> :> DirNode) @@
    (<< <<"u">>, <<"g">> >> :> FileNode(<< <<"k">> >>, TRUE, Mode644))

OutsideListing == (<< <<"u">> >> :> << <<"g">> >>)

\* the elements of a set of indices, in increasing order
RECURSIVE Sorted(_)
Sorted(S) ==
    IF S = {} THEN <<>>
    ELSE LET m == CHOOSE x \in S : \A y \in S : x <= y IN <<m>> \o Sorted(S \ {m})

Under(root, f) == [q \in { <<root>> \o r : r \in DOMAIN f } |-> f[Tail(q)]]

RECURSIVE MergeAll(_, _)
MergeAll(fns, k) == IF k > Len(fns) THEN <<>> ELSE fns[k] @@ MergeAll(fns, k + 1)

\* the file system with the template root and the entries picked
TemplateFS(root, picked) ==
    Outside @@ (<<root>> :> DirNode)
            @@ MergeAll([k \in 1..Len(picked) |-> Under(root, Catalogue[picked[k]].nodes)], 1)

TemplateListing(root, picked) ==
    OutsideListing @@ (<<root>> :> [k \in 1..Len(picked) |-> Catalogue[picked[k]].name])
            @@ MergeAll([k \in 1..Len(picked) |-> Under(root, Catalogue[picked[k]].listing)], 1)

Picks == { Sorted(S) : S \in { T \in SUBSET (1..Len(Catalogue)) : Cardinality(T) <= MaxEntries } }

\* the values of the two keys: x is 7, 7, 8, 8, ... and i is 1, 2, 3, ...
XValues(n) == [k \in 1..n |-> IF k <= 2 THEN <<"7">> ELSE <<"8">>]

IValues(n) == [k \in 1..n |-> str(k)]

\* the keyword arguments with nx values for x and ni for i (0: no such key)
Swaps(nx, ni) ==
    (IF nx = 0 THEN <<>> ELSE << [key |-> <<"x">>, value |-> ListValue(XValues(nx))] >>) \o
    (IF ni = 0 THEN <<>> ELSE << [key |-> <<"i">>, value |-> ListValue(IValues(ni))] >>)

\* the values of x of a caller that passes text with braces: {y}, 7, 7, ...
BraceValues(n) == [k \in 1..n |-> IF k = 1 THEN <<"{", "y", "}">> ELSE <<"7">>]

\* the keyword arguments of that caller
BraceSwaps(nx, ni) ==
    (IF nx = 0 THEN <<>> ELSE << [key |-> <<"x">>, value |-> ListValue(BraceValues(nx))] >>) \o
    (IF ni = 0 THEN <<>> ELSE << [key |-> <<"i">>, value |-> ListValue(IValues(ni))] >>)

\* the destination roots: a directory apart from the template, and "." (the
\* default of --root), where the directory that holds the template is
Roots == { <<"o">>, <<".">> }

\* the values of --run
RunArgs == { None, StrValue(<<"c">>), StrValue(<<"1", "-", "2">>) }

\* the commands of --run for a run without a template: none, one without a
\* placeholder, with one, with the second character of one, with one that
\* has no value
Commands ==
    { <<>>, <<"c">>, <<"c">> \o PX, <<"c", "{", "x", "[", "1", "]", "}">>,
      <<"c", "{", "y", "}">> }

\* the values of x for a command: "ab", "c", "ab", ...
XWords(n) == [k \in 1..n |-> IF k % 2 = 1 THEN <<"a", "b">> ELSE <<"c">>]

\* the parsed swaps of a run without a template
RunSwaps(nx, ni) ==
    (IF nx = 0 THEN <<>> ELSE << [key |-> <<"x">>, value |-> ListValue(XWords(nx))] >>) \o
    (IF ni = 0 THEN <<>> ELSE << [key |-> <<"i">>, value |-> ListValue(IValues(ni))] >>)

\* an independent list of a key for a swapfile: its first n values, no two
\* the same (7, 8, ... for x; 1, 2, ... for i; a, b, ... for y)
Independent(key, n) ==
    [k \in 1..n |-> IF key = <<"x">> THEN str(6 + k)
                    ELSE IF key = <<"i">> THEN str(k)
                    ELSE (IF k = 1 THEN <<"a">> ELSE IF k = 2 THEN <<"b">> ELSE <<"c">>)]

\* the parsed swaps of a run that makes a swapfile: each of the keys x, i
\* and y is left out (-1) or given with a list of 0..MaxLen values
SwapfileSwaps(nx, ni, ny) ==
    (IF nx < 0 THEN <<>> ELSE << [key |-> <<"x">>, value |-> ListValue(Independent(<<"x">>, nx))] >>) \o
    (IF ni < 0 THEN <<>> ELSE << [key |-> <<"i">>, value |-> ListValue(Independent(<<"i">>, ni))] >>) \o
    (IF ny < 0 THEN <<>> ELSE << [key |-> <<"y">>, value |-> ListValue(Independent(<<"y">>, ny))] >>)

NoArgs == [template |-> <<>>, root |-> <<>>, run |-> None, swaps |-> <<>>]

(***************************************************************************)
(* State                                                                   *)
(***************************************************************************)
VARIABLES
    fs,           \* the file system: path components -> node
    listing,      \* os.listdir of the directories that exist at the start
    template_dir, \* where the template is
    swap_counts,  \* Logger().swap_counts
    counts,       \* Logger().counts
    pc,           \* "start", "constructed", "loop", "done", "error"
    err,          \* the exception that ended the run, "none" without one
    args,         \* the arguments of the run
    template,     \* the Template
    maps,         \* make_copies: swaps, the list of dictionaries
    i,            \* make_copies: how many dictionaries the loop has taken
    cur,          \* the dictionary of the copy that is being made
    todo,         \* the calls the copy that is being made still has to make
    calls,        \* history: the dictionaries the root directory was copied with
    snaps,        \* history: the file system after each copy that returned
    fs0,          \* history: the file system at the start
    last,         \* history: the call made last and how it ended
    entry,        \* the entry point of the run, "none" before it is taken
    runner,       \* the CommandRunner
    threads,      \* CommandRunner.threads, with each thread's position
    joined,       \* wait_for_all: how many threads its loop is past
    printed,      \* what the threads printed about commands that failed
    returned,     \* history: per category, the counted calls that returned
    named,        \* what the message of the exception err is formatted with
    swapfile      \* what make_swapfile dumped, NoSwapfile when it did not

vars == <<fs, listing, template_dir, swap_counts, counts, pc, err, args, template,
          maps, i, cur, todo, calls, snaps, fs0, last, entry, runner, threads, joined,
          printed, returned, named, swapfile>>

\* what the copies leave alone
runnerVars == <<runner, threads, joined, printed>>

\* what the commands leave alone
copyVars == <<fs, listing, template_dir, template, cur, todo, calls, snaps, fs0, last>>

\* what an exception's message is formatted with: a set of names (missing),
\* a dictionary of lengths (length_dict), or nothing
Names(missing) == [names |-> missing, lengths |-> <<>>]

\* length_dict = {key: len(value) for key, value in args.swaps.items()}
length_dict(swaps) ==
    [key \in {swaps[k].key : k \in 1..Len(swaps)} |->
        Len(swaps[CHOOSE k \in 1..Len(swaps) : swaps[k].key = key].value.list)]

Lengths(d) == [names |-> DOMAIN d, lengths |-> d]

NoCall == [op |-> "none", src |-> <<>>, path |-> <<>>, swaps |-> <<>>, err |-> "none"]

\* one more call of a category that returned
Tally(d, k) == (k :> (IF k \in DOMAIN d THEN d[k] + 1 ELSE 1)) @@ d

Call(op, src, path, swaps, e) ==
    [op |-> op, src |-> src, path |-> path, swaps |-> swaps, err |-> e]

\* no swapfile was dumped
NoSwapfile == [dumped |-> FALSE, content |-> <<>>]

\* args.template of a run that was given no template
NoTemplateDir == <<>>

\* a run is given a template, which is there, or none
Init ==
    /\ \/ \E root \in RootNames, picked \in Picks :
             /\ fs = TemplateFS(root, picked)
             /\ listing = TemplateListing(root, picked)
             /\ template_dir = root
       \/ /\ fs = Outside
          /\ listing = OutsideListing
          /\ template_dir = NoTemplateDir
    /\ fs0 = fs
    /\ swap_counts = <<>>
    /\ counts = <<>>
    /\ pc = "start"
    /\ err = "none"
    /\ args = NoArgs
    /\ template = NoTemplate
    /\ maps = <<>>
    /\ i = 0
    /\ cur = <<>>
    /\ todo = <<>>
    /\ calls = <<>>
    /\ snaps = <<>>
    /\ last = NoCall
    /\ entry = "none"
    /\ runner = NoRunner
    /\ threads = <<>>
    /\ joined = 0
    /\ printed = <<>>
    /\ returned = <<>>
    /\ named = Names({})
    /\ swapfile = NoSwapfile

(***************************************************************************)
(* Entry points                                                            *)
(***************************************************************************)
\* the end of Template(...) for both callers
Construct(e, a, made, told) ==
    /\ entry' = e
    /\ named' = told
    /\ args' = a
    /\ template' = made
    /\ pc' = IF made.err = "none" THEN "constructed" ELSE "error"
    /\ err' = made.err
    /\ UNCHANGED <<swapfile, fs, listing, template_dir, swap_counts, counts, maps, i, cur, todo,
                   calls, snaps, fs0, last, runnerVars, returned>>

\* a caller of the library: template = Template(root, **swaps)
Template_new ==
    /\ pc = "start"
    /\ template_dir # NoTemplateDir
    /\ \E nx \in 0..MaxLen, ni \in 0..MaxLen, root \in Roots :
       \E swaps \in {Swaps(nx, ni), BraceSwaps(nx, ni)} :
          LET a == [template |-> template_dir, root |-> root, run |-> None,
                    swaps |-> swaps]
          IN  Construct("Template", a, Template(fs, listing, a.template, a.swaps),
                        Names({}))

\* main.copies_main (main calls it when args.template is not None) up to
\* template.make_copies: the check of the lengths, then
\* Template(args.template, run=args.run, **args.swaps)
copies_main ==
    /\ pc = "start"
    /\ template_dir # NoTemplateDir
    /\ \E nx \in 0..MaxLen, ni \in 0..MaxLen, root \in Roots, run_arg \in RunArgs :
          LET a == [template |-> template_dir, root |-> root, run |-> run_arg,
                    swaps |-> Swaps(nx, ni)]
              lengths == { Len(a.swaps[k].value.list) : k \in 1..Len(a.swaps) }
          IN  IF Cardinality(lengths) > 1
              THEN Construct("copies_main", a, TemplateObject(
                       "ValueError: All swaps must have the same number of elements. Got",
                       <<>>, EmptyTree, <<>>, 0), Lengths(length_dict(a.swaps)))
              ELSE Construct("copies_main", a,
                             Template(fs, listing, a.template,
                                      << [key |-> <<"r", "u", "n">>, value |-> run_arg] >>
                                      \o a.swaps),
                             Names({}))

(***************************************************************************)
(* Template.make_copies                                                    *)
(***************************************************************************)
\* the call and its list comprehension
make_copies ==
    /\ pc = "constructed"
    /\ LET expanded == expand(template.swaps, template.nswaps) IN
          /\ maps' = expanded.maps
          /\ pc' = IF expanded.err = "none" THEN "loop" ELSE "error"
          /\ err' = expanded.err
    /\ UNCHANGED <<swapfile, fs, listing, template_dir, swap_counts, counts, args, template, i, cur,
                   todo, calls, snaps, fs0, last, entry, runnerVars, returned, named>>

\* for swap in swaps: self.directory.make_copy_with_swaps(new_root, **swap)
next_copy ==
    /\ pc = "loop"
    /\ todo = <<>>
    /\ i < Len(maps)
    /\ i' = i + 1
    /\ cur' = maps[i + 1]
    /\ calls' = Append(calls, maps[i + 1])
    /\ todo' = << [type |-> "dir", src |-> template.root_path, path |-> args.root] >>
    /\ UNCHANGED <<swapfile, fs, listing, template_dir, swap_counts, counts, pc, err, args,
                   template, maps, snaps, fs0, last, entry, runnerVars, returned, named>>

\* the end of a call whose exception is swallowed: the copy goes on with the
\* calls that are left
AfterCall_carrying_on(op, r, rest) ==
    /\ fs' = r.w.fs
    /\ swap_counts' = r.w.swap_counts
    /\ counts' = r.w.counts
    /\ last' = Call(op, Head(todo).src, Head(todo).path, cur, r.err)
    /\ err' = r.err
    /\ pc' = "loop"
    /\ todo' = IF r.err = "none" THEN rest ELSE Tail(todo)
    /\ snaps' = IF todo' = <<>> THEN Append(snaps, r.w.fs) ELSE snaps
    /\ returned' = IF r.err = "none" THEN Tally(returned, op) ELSE returned
    /\ named' = Names(r.named)
    /\ UNCHANGED <<swapfile, listing, template_dir, args, template, maps, i, cur, calls, fs0, entry,
                   runnerVars>>

\* the end of a call made for the copy: an exception ends the run, the last
\* call ends the copy
AfterCall(op, r, rest) ==
    /\ fs' = r.w.fs
    /\ swap_counts' = r.w.swap_counts
    /\ counts' = r.w.counts
    /\ last' = Call(op, Head(todo).src, Head(todo).path, cur, r.err)
    /\ err' = r.err
    /\ pc' = IF r.err = "none" THEN "loop" ELSE "error"
    /\ todo' = IF r.err = "none" THEN rest ELSE <<>>
    /\ snaps' = IF r.err = "none" /\ rest = <<>> THEN Append(snaps, r.w.fs) ELSE snaps
    /\ returned' = IF r.err = "none" THEN Tally(returned, op) ELSE returned
    /\ named' = Names(r.named)
    /\ UNCHANGED <<swapfile, listing, template_dir, args, template, maps, i, cur, calls, fs0, entry,
                   runnerVars>>

\* Directory.make_copy_with_swaps: the directory is made; the calls for its
\* files, then for its children, come before what the caller does next
copy_directory ==
    /\ pc = "loop"
    /\ todo # <<>>
    /\ Head(todo).type = "dir"
    /\ LET t == Head(todo)
           d == template.directory.dirs[t.src]
           r == Directory_make_copy_with_swaps(World(fs, swap_counts, counts),
                                               t.src, t.path, cur)
           files == [k \in 1..Len(d.files) |->
                        [type |-> "file", src |-> d.files[k], path |-> r.path]]
           children == [k \in 1..Len(d.children) |->
                        [type |-> "dir", src |-> d.children[k], path |-> r.path]]
       IN  AfterCall("directory", r, files \o children \o Tail(todo))

\* File.make_copy_with_swaps
copy_file ==
    /\ pc = "loop"
    /\ todo # <<>>
    /\ Head(todo).type = "file"
    /\ LET t == Head(todo)
           r == File_make_copy_with_swaps(World(fs, swap_counts, counts),
                                          template.directory.files[t.src],
                                          t.src, t.path, cur)
       IN  AfterCall("file", r, Tail(todo))

\* make_copies returns
finish ==
    /\ pc = "loop"
    /\ todo = <<>>
    /\ i = Len(maps)
    /\ pc' = "done"
    /\ UNCHANGED <<swapfile, fs, listing, template_dir, swap_counts, counts, err, args, template,
                   maps, i, cur, todo, calls, snaps, fs0, last, entry, runnerVars, returned, named>>

(***************************************************************************)
(* Commands without a template                                             *)
(***************************************************************************)
\* CommandRunner(command) for both callers
NewRunner(e, a, failure, told) ==
    /\ entry' = e
    /\ named' = told
    /\ args' = a
    /\ runner' = IF failure = "none" THEN CommandRunner(a.run.string) ELSE runner
    /\ pc' = IF failure = "none" THEN "runner" ELSE "error"
    /\ err' = failure
    /\ UNCHANGED <<swapfile, copyVars, swap_counts, counts, maps, i, threads, joined, printed,
                   returned>>

\* main.run_main (main calls it when args.template is None) up to
\* run_command_for_all_swaps: the check of the lengths, then
\* CommandRunner(args.run)
run_main ==
    /\ pc = "start"
    /\ template_dir = NoTemplateDir
    /\ \E nx \in 0..MaxLen, ni \in 0..MaxLen, command \in Commands :
          LET a == [template |-> <<>>, root |-> <<>>, run |-> StrValue(command),
                    swaps |-> RunSwaps(nx, ni)]
              lengths == { Len(a.swaps[k].value.list) : k \in 1..Len(a.swaps) }
          IN  NewRunner("run_main", a,
                        IF Cardinality(lengths) > 1
                        THEN "ValueError: All swaps must have the same number of elements. Got"
                        ELSE "none",
                        IF Cardinality(lengths) > 1 THEN Lengths(length_dict(a.swaps))
                        ELSE Names({}))

\* a caller of the library: command_runner = CommandRunner(command)
CommandRunner_new ==
    /\ pc = "start"
    /\ template_dir = NoTemplateDir
    /\ \E nx \in 0..MaxLen, ni \in 0..MaxLen, command \in Commands :
          NewRunner("CommandRunner",
                    [template |-> <<>>, root |-> <<>>, run |-> StrValue(command),
                     swaps |-> RunSwaps(nx, ni)],
                    "none", Names({}))

\* run_command_for_all_swaps: the call, nswaps and the list comprehension
run_command_for_all_swaps ==
    /\ pc = "runner"
    /\ LET swaps == [k \in 1..Len(args.swaps) |->
                       [key |-> args.swaps[k].key, value |-> args.swaps[k].value.list]]
           expanded == IF swaps = <<>> THEN [err |-> "IndexError", maps |-> <<>>]
                       ELSE unpack_swaps(swaps, Len(swaps[1].value))
       IN  /\ maps' = expanded.maps
           /\ err' = expanded.err
           /\ pc' = IF expanded.err # "none" THEN "error"
                    ELSE IF expanded.maps = <<>> THEN "waiting" ELSE "commands"
    /\ UNCHANGED <<swapfile, copyVars, swap_counts, counts, args, i, entry, runnerVars, returned, named>>

\* for swap in swaps: self.run_command(**swap), under @logger.count("command")
call_run_command ==
    /\ pc = "commands"
    /\ i < Len(maps)
    /\ LET r == run_command(runner, maps[i + 1]) IN
          /\ swap_counts' = count_swaps(swap_counts, r.counted)
          /\ err' = r.err
          /\ named' = Names(r.named)
          /\ IF r.err # "none"
             THEN /\ pc' = "error"
                  /\ UNCHANGED <<i, threads, counts, returned>>
             ELSE /\ pc' = IF i + 1 = Len(maps) THEN "waiting" ELSE "commands"
                  /\ i' = i + 1
                  /\ threads' = IF r.started THEN Append(threads, Thread(r.command))
                                 ELSE threads
                  /\ counts' = count(counts, "command")
                  /\ returned' = Tally(returned, "command")
    /\ UNCHANGED <<swapfile, copyVars, args, maps, entry, runner, joined, printed>>

\* one thread runs its command to the end, whatever the main thread does
thread_run ==
    /\ \E k \in 1..Len(threads), outcome \in Outcomes :
          /\ threads[k].state = "running"
          /\ threads' = [threads EXCEPT ![k] = run(threads[k], outcome).thread]
          /\ printed' = printed \o run(threads[k], outcome).printed
    /\ UNCHANGED <<swapfile, copyVars, swap_counts, counts, pc, err, args, maps, i, entry, runner,
                   joined, returned, named>>

\* wait_for_all: the join of the next thread returns
wait_for_all ==
    /\ pc = "waiting"
    /\ joined < Len(threads)
    /\ join_next(threads, joined) # joined
    /\ joined' = join_next(threads, joined)
    /\ UNCHANGED <<swapfile, copyVars, swap_counts, counts, pc, err, args, maps, i, entry, runner,
                   threads, printed, returned, named>>

\* run_command_for_all_swaps returns
all_swaps_return ==
    /\ pc = "waiting"
    /\ joined = Len(threads)
    /\ pc' = "done"
    /\ UNCHANGED <<swapfile, copyVars, swap_counts, counts, err, args, maps, i, entry, runnerVars,
                   returned, named>>

(***************************************************************************)
(* A swapfile                                                              *)
(***************************************************************************)
\* main.swapfile_main (main calls it when args.template and args.run are
\* None and args.swapfile is not): make_swapfile dumps get_swap_combos of
\* the swaps, and main returns
swapfile_main ==
    /\ pc = "start"
    /\ template_dir = NoTemplateDir
    /\ \E nx \in (-1)..MaxLen, ni \in (-1)..MaxLen, ny \in (-1)..MaxLen :
          LET a == [template |-> <<>>, root |-> <<>>, run |-> None,
                    swaps |-> SwapfileSwaps(nx, ni, ny)]
              swaps == [k \in 1..Len(a.swaps) |->
                          [key |-> a.swaps[k].key, value |-> a.swaps[k].value.list]]
          IN  /\ args' = a
              /\ swapfile' = [dumped |-> TRUE, content |-> get_swap_combos(swaps)]
    /\ entry' = "swapfile_main"
    /\ pc' = "done"
    /\ UNCHANGED <<copyVars, swap_counts, counts, err, maps, i, runnerVars, returned, named>>

Next ==
    \/ swapfile_main
    \/ Template_new
    \/ copies_main
    \/ make_copies
    \/ next_copy
    \/ copy_directory
    \/ copy_file
    \/ finish
    \/ run_main
    \/ CommandRunner_new
    \/ run_command_for_all_swaps
    \/ call_run_command
    \/ thread_run
    \/ wait_for_all
    \/ all_swaps_return

Spec == Init /\ [][Next]_vars

(***************************************************************************)
(* What the properties speak of                                            *)
(***************************************************************************)
\* s with every {name} token whose name is a key of swaps replaced by the
\* value: the substitution of the specification, token by token
RECURSIVE Substituted_from(_, _, _)
Substituted_from(s, k, swaps) ==
    IF k > Len(s) THEN <<>>
    ELSE LET j == NextBrace(s, k + 1)
             isToken == /\ s[k] = "{"
                        /\ j > k + 1
                        /\ s[j] = "}"
                        /\ \A n \in (k + 1)..(j - 1) : IsAsciiWordChar(s[n])
                        /\ SubSeq(s, k + 1, j - 1) \in DOMAIN swaps
         IN  IF isToken THEN swaps[SubSeq(s, k + 1, j - 1)] \o Substituted_from(s, j + 1, swaps)
             ELSE <<s[k]>> \o Substituted_from(s, k + 1, swaps)

Substituted(s, swaps) == Substituted_from(s, 1, swaps)

Placeholders(s) == findall(s, TRUE)

NoBraces(s) == \A k \in 1..Len(s) : s[k] \notin {"{", "}"}

\* the call the next step makes
FileStep == pc = "loop" /\ todo # <<>> /\ Head(todo).type = "file"

DirStep == pc = "loop" /\ todo # <<>> /\ Head(todo).type = "dir"

\* the node a path names in a file system, through links or not
NodeAt(f, p) == f[Real(f, p)]

IsRegular(f, p) == KindOf(f, LReal(f, p)) = "file"

IsTextFile(f, p) == IsRegular(f, p) /\ NodeAt(f, p).text

IsBinaryFile(f, p) == IsRegular(f, p) /\ ~NodeAt(f, p).text

\* the placeholders in the content of the file at p (bytes that do not
\* decode hold none)
ContentPlaceholders(f, p) ==
    IF KindOf(f, Real(f, p)) = "file" /\ NodeAt(f, p).text
    THEN UNION { Placeholders(NodeAt(f, p).lines[k]) : k \in 1..Len(NodeAt(f, p).lines) }
    ELSE {}

\* where the specification puts the copy of src made in directory path
DestOf(src, path, swaps) == with_name(path, Substituted(basename(src), swaps))

\* the lengths of the lists of a swap plan as the caller passed it
GivenLengths == { Len(args.swaps[k].value.list) : k \in 1..Len(args.swaps) }

(***************************************************************************)
(* C1: make_copies copies the root directory once per index of the plan,   *)
(* in index order, the n-th time with the n-th value of every key: what    *)
(* was copied so far is always a prefix of that list, and it is the whole  *)
(* list when make_copies returns.                                          *)
(***************************************************************************)
C1_PositionalCopies ==
    pc \in {"loop", "done", "error"} /\ template.err = "none" =>
        /\ Len(calls) <= Len(template.swaps[1].value)
        /\ \A n \in 1..Len(calls) :
              /\ DOMAIN calls[n] = { template.swaps[k].key : k \in 1..Len(template.swaps) }
              /\ \A k \in 1..Len(template.swaps) :
                    calls[n][template.swaps[k].key] = template.swaps[k].value[n]
        /\ pc = "done" => Len(calls) = Len(template.swaps[1].value)

\* make_copies returned after two copies of a plan with two keys
C1_Witness ==
    /\ pc = "done"
    /\ Len(calls) = 2
    /\ Len(template.swaps) = 2
    /\ calls[1] # calls[2]

(***************************************************************************)
(* C2: a swap plan whose lists differ in length is rejected before any     *)
(* copy begins: the run ends in an error and the file system is as it was  *)
(* at the start.                                                           *)
(***************************************************************************)
C2_UnequalLengthsRejected ==
    entry \in {"Template", "copies_main"} /\ Cardinality(GivenLengths) > 1 =>
        /\ pc = "error"
        /\ fs = fs0
        /\ calls = <<>>

\* Template.parse_swaps rejected a plan
C2_Witness ==
    /\ entry = "Template"
    /\ pc = "error"
    /\ Cardinality(GivenLengths) > 1
    /\ err = "ValueError: All swaps must have the same number of elements"
    /\ fs = fs0

(***************************************************************************)
(* C3: File.make_copy_with_swaps of a file whose name or content has a     *)
(* placeholder that is not a key of the map raises, and the call writes    *)
(* nothing.                                                                *)
(***************************************************************************)
C3_MissingPlaceholderWritesNothing ==
    [][ ( /\ FileStep
          /\ ~( Placeholders(basename(Head(todo).src))
                \cup ContentPlaceholders(fs, Head(todo).src) \subseteq DOMAIN cur) )
        => (pc' = "error" /\ err' # "none" /\ fs' = fs) ]_vars

\* a copy failed on a placeholder of the content, after the directory of the
\* copy was made
C3_Witness ==
    /\ pc = "error"
    /\ last.op = "file"
    /\ last.err = "ValueError: Missing placeholders"
    /\ ~(ContentPlaceholders(fs, last.src) \subseteq DOMAIN last.swaps)
    /\ fs # fs0

(***************************************************************************)
(* C4: File.make_copy_with_swaps of a text file whose placeholders are all *)
(* keys of the map succeeds, and the copy holds the source's lines with    *)
(* every {name} token replaced by the value of name.                       *)
(***************************************************************************)
C4_TextSubstituted ==
    [][ ( /\ FileStep
          /\ IsTextFile(fs, Head(todo).src)
          /\ ContentPlaceholders(fs, Head(todo).src) # {}
          /\ Placeholders(basename(Head(todo).src))
                \cup ContentPlaceholders(fs, Head(todo).src) \subseteq DOMAIN cur
          /\ NoBraces(Head(todo).path) )
        => LET t == Head(todo)
               dest == DestOf(t.src, t.path, cur)
               lines == NodeAt(fs, t.src).lines
           IN  /\ pc' = "loop"
               /\ KindOf(fs', Real(fs', dest)) = "file"
               /\ NodeAt(fs', dest).lines = [k \in 1..Len(lines) |-> Substituted(lines[k], cur)]
      ]_vars

(***************************************************************************)
(* C5: after File.make_copy_with_swaps copied a text file with             *)
(* placeholders, the copy has the permission bits of the source.           *)
(***************************************************************************)
C5_PermissionsCopied ==
    [][ ( /\ FileStep
          /\ IsTextFile(fs, Head(todo).src)
          /\ ContentPlaceholders(fs, Head(todo).src) # {}
          /\ NoBraces(Head(todo).path)
          /\ pc' = "loop" )
        => LET t == Head(todo)
               dest == DestOf(t.src, t.path, cur)
           IN  /\ KindOf(fs', Real(fs', dest)) = "file"
               /\ NodeAt(fs', dest).mode = NodeAt(fs, t.src).mode
      ]_vars

\* where the specification puts the copy, made with swaps, of the template
\* node with the components q: below the destination root, every component
\* substituted
DestComponents(q, swaps) ==
    Components(args.root) \o [k \in 1..Len(q) |-> Substituted(q[k], swaps)]

\* the symbolic links of the template
TemplateLinks == { q \in DOMAIN fs0 : q[1] = template_dir /\ fs0[q].kind = "link" }

(***************************************************************************)
(* C6: every symbolic link of the template is copied as a symbolic link    *)
(* with the same target string: after each copy that returned, the copy    *)
(* has, for every link of the template, a link with the target of the      *)
(* source (not a file, not a directory, not nothing).                      *)
(***************************************************************************)
C6_LinksCopiedAsLinks ==
    \A n \in 1..Len(snaps) : \A q \in TemplateLinks :
        LET d == DestComponents(q, calls[n]) IN
        /\ d \in DOMAIN snaps[n]
        /\ snaps[n][d].kind = "link"
        /\ snaps[n][d].target = fs0[q].target

(***************************************************************************)
(* C7: Directory.make_copy_with_swaps called a second time with the same   *)
(* destination and the same map does not raise, and leaves the file system *)
(* as the first call left it.                                              *)
(***************************************************************************)
C7_SecondCopySame ==
    \A n \in 1..(Len(calls) - 1) :
        ( /\ calls[n + 1] = calls[n]
          /\ n <= Len(snaps)
          /\ (n + 1 <= Len(snaps) \/ (pc = "error" /\ Len(calls) = n + 1)) )
        => (n + 1 <= Len(snaps) /\ snaps[n + 1] = snaps[n])

(***************************************************************************)
(* C8: Directory.make_copy_with_swaps makes a directory named as the       *)
(* template directory with every {name} token replaced by the value of     *)
(* name, and when the copy of the template returns, every file and         *)
(* sub-directory of the root directory has its copy in that directory.     *)
(***************************************************************************)
C8_DirectoryNamed ==
    [][ /\ ( DirStep /\ Placeholders(basename(Head(todo).src)) \subseteq DOMAIN cur
                     /\ NoBraces(Head(todo).path) )
           => ( /\ pc' = "loop"
                /\ isdir(fs', DestOf(Head(todo).src, Head(todo).path, cur)) )
        /\ ( pc = "loop" /\ Len(snaps') > Len(snaps) )
           => LET root == template.directory.dirs[template.root_path]
                  made == DestOf(template.root_path, args.root, cur)
              IN  /\ \A k \in 1..Len(root.files) :
                        Exists(fs', LReal(fs', DestOf(root.files[k], made, cur)))
                  /\ \A k \in 1..Len(root.children) :
                        isdir(fs', DestOf(root.children[k], made, cur))
      ]_vars

(***************************************************************************)
(* C9: Directory.make_copy_with_swaps of a directory whose name has a      *)
(* placeholder that is not a key of the map raises before it makes the     *)
(* directory or copies anything into it: the call writes nothing.          *)
(***************************************************************************)
C9_MissingInDirectoryName ==
    [][ ( /\ DirStep
          /\ ~(Placeholders(basename(Head(todo).src)) \subseteq DOMAIN cur) )
        => (pc' = "error" /\ err' # "none" /\ fs' = fs /\ todo' = <<>>) ]_vars

\* the copy of a directory failed on its name, and no file of the template
\* needs a placeholder that is missing
C9_Witness ==
    /\ pc = "error"
    /\ last.op = "directory"
    /\ last.err = "ValueError: Missing swaps"
    /\ ~(Placeholders(basename(last.src)) \subseteq DOMAIN last.swaps)
    /\ DOMAIN template.directory.files # {}
    /\ \A f \in DOMAIN template.directory.files :
          template.directory.files[f]._placeholders \subseteq DOMAIN last.swaps
    /\ fs = fs0

(***************************************************************************)
(* C10: a file whose bytes do not decode as text has no placeholders, and  *)
(* its copy has the bytes of the source whatever the map is: the copy      *)
(* never fails on a placeholder of the content, it succeeds whenever the   *)
(* path has no brace, and a copy that succeeded holds the source's bytes.  *)
(***************************************************************************)
C10_BinaryCopiedVerbatim ==
    [][ /\ template.err = "none"
           => \A f \in DOMAIN template.directory.files :
                 IsBinaryFile(fs0, f) => template.directory.files[f]._placeholders = {}
        /\ ( FileStep /\ IsBinaryFile(fs, Head(todo).src) )
           => LET t == Head(todo)
                  dest == DestOf(t.src, t.path, cur)
              IN  /\ err' # "ValueError: Missing placeholders"
                  /\ NoBraces(t.path) /\ NoBraces(basename(t.src)) => pc' = "loop"
                  /\ pc' = "loop" =>
                        /\ IsBinaryFile(fs', dest)
                        /\ NodeAt(fs', dest).lines = NodeAt(fs, t.src).lines
      ]_vars

\* bytes that hold "{x}" were copied with a map that has no x
C10_Witness ==
    /\ last.op = "file"
    /\ last.err = "none"
    /\ IsBinaryFile(fs0, last.src)
    /\ UNION { Placeholders(NodeAt(fs0, last.src).lines[k]) :
                 k \in 1..Len(NodeAt(fs0, last.src).lines) } = { <<"x">> }
    /\ <<"x">> \notin DOMAIN last.swaps
    /\ IsBinaryFile(fs, DestOf(last.src, last.path, last.swaps))
    /\ NodeAt(fs, DestOf(last.src, last.path, last.swaps)).lines = NodeAt(fs0, last.src).lines

(***************************************************************************)
(* C14: no copy changes a file of the template: whatever the destination   *)
(* root and the map are, every regular file under the template root has,   *)
(* at every point of the run, the bytes it had when the run started.       *)
(***************************************************************************)
\* the regular files under the template root when the run started
TemplateFiles ==
    { p \in DOMAIN fs0 : Len(p) > 1 /\ p[1] = template_dir /\ fs0[p].kind = "file" }

C14_SourceNeverModified ==
    \A p \in TemplateFiles :
        /\ p \in DOMAIN fs
        /\ fs[p].kind = "file"
        /\ fs[p].lines = fs0[p].lines
        /\ fs[p].text = fs0[p].text

(***************************************************************************)
(* C11: when copies_main is given a command to run, the command is         *)
(* launched once per copy, right after the copy: a copy never starts       *)
(* before the command of the one before it was launched, and when          *)
(* make_copies returns there is one command per copy.                      *)
(***************************************************************************)
C11_CommandAfterEachCopy ==
    ( entry = "copies_main" /\ args.run # None /\ pc \in {"loop", "done"} ) =>
        /\ i > 0 => Len(threads) >= i - 1
        /\ Len(threads) >= Len(snaps)
        /\ pc = "done" => Len(threads) = Len(maps)

(***************************************************************************)
(* C12: run_command_for_all_swaps does not end, by returning or with an    *)
(* exception, while a thread it started is still running its command.      *)
(***************************************************************************)
C12_NoThreadOutlivesTheCall ==
    ( entry \in {"run_main", "CommandRunner"} /\ pc \in {"done", "error"} ) =>
        \A k \in 1..Len(threads) : threads[k].state = "finished"

(***************************************************************************)
(* C13: a command that fails (a status other than 0, or an exception of    *)
(* os.system) is reported and nothing else: the step that reports it ends  *)
(* that thread for good, with the status it got, and leaves the loop, the  *)
(* exception of the run and the other threads as they are; every failure   *)
(* of a thread that ended has its report, and a run whose commands failed  *)
(* still returns with one thread per index.                                *)
(***************************************************************************)
FailedThreads == { k \in 1..Len(threads) : threads[k].status \notin {"none", "0"} }

C13_FailureOnlyReported ==
    [][ /\ printed' # printed =>
             /\ Len(printed') = Len(printed) + 1
             /\ <<pc', err', i', maps', joined', counts'>> = <<pc, err, i, maps, joined, counts>>
             /\ Len(threads') = Len(threads)
             /\ \E k \in 1..Len(threads) :
                   /\ threads[k].state = "running"
                   /\ threads'[k].state = "finished"
                   /\ threads'[k].status # "0"
                   /\ printed'[Len(printed')] = [command |-> threads[k].command,
                                                 status |-> threads'[k].status]
                   /\ \A n \in 1..Len(threads) : n # k => threads'[n] = threads[n]
        /\ \A k \in 1..Len(threads) :
             threads[k].state = "finished" => threads'[k] = threads[k]
        /\ Cardinality(FailedThreads) = Len(printed)
        /\ ( pc = "waiting" /\ runner.command # <<>> ) => Len(threads) = Len(maps)
      ]_vars

\* a run of two commands returned although the first one failed
C13_Witness ==
    /\ entry = "run_main"
    /\ pc = "done"
    /\ Len(threads) = 2
    /\ threads[1].status = "256"
    /\ threads[2].status = "0"
    /\ Len(printed) = 1

(***************************************************************************)
(* C15: a regular file without placeholders whose executable bit is set is *)
(* copied byte for byte, and the copy has the permission bits of the       *)
(* source, so the copy is executable.                                      *)
(***************************************************************************)
C15_ExecutableCopied ==
    [][ ( /\ FileStep
          /\ IsRegular(fs, Head(todo).src)
          /\ template.directory.files[Head(todo).src]._placeholders = {}
          /\ "ux" \in NodeAt(fs, Head(todo).src).mode
          /\ NoBraces(Head(todo).path)
          /\ pc' = "loop" )
        => LET t == Head(todo)
               dest == DestOf(t.src, t.path, cur)
           IN  /\ KindOf(fs', Real(fs', dest)) = "file"
               /\ NodeAt(fs', dest).lines = NodeAt(fs, t.src).lines
               /\ NodeAt(fs', dest).mode = NodeAt(fs, t.src).mode
               /\ "ux" \in NodeAt(fs', dest).mode
      ]_vars

(***************************************************************************)
(* C16: a structural error names what is wrong: the error of lists of      *)
(* different lengths is formatted with the length of every key, and the    *)
(* error of a missing placeholder with the names that are missing (at      *)
(* least one, none of them a key of the map); neither comes with a         *)
(* message that names nothing.                                             *)
(***************************************************************************)
LengthErrors ==
    { "ValueError: All swaps must have the same number of elements",
      "ValueError: All swaps must have the same number of elements. Got" }

MissingErrors == { "ValueError: Missing swaps", "ValueError: Missing placeholders" }

\* the map the call that failed was made with
MapOfFailure == IF entry \in {"run_main", "CommandRunner"} THEN maps[i + 1] ELSE cur

C16_ErrorsNameOffenders ==
    pc = "error" =>
        /\ err \in LengthErrors =>
              /\ named.names = { args.swaps[k].key : k \in 1..Len(args.swaps) }
              /\ named.lengths = length_dict(args.swaps)
        /\ err \in MissingErrors =>
              /\ named.names # {}
              /\ named.names \cap DOMAIN MapOfFailure = {}

(***************************************************************************)
(* C17: the counters of the operations are exact however the command       *)
(* threads interleave with the loop of the main thread: at every point of  *)
(* a run, and so when it ends, each of counts['directory'], counts['file'] *)
(* and counts['command'] is the number of calls of that category that      *)
(* returned; a call that raised added nothing and no increment was lost.   *)
(***************************************************************************)
C17_CountsExact ==
    /\ \A key \in {"directory", "file", "command"} : Get(counts, key) = Get(returned, key)
    /\ DOMAIN counts \subseteq {"directory", "file", "command"}

\* the second command raised after the first one's thread had run and failed
C17_Witness ==
    /\ entry = "CommandRunner"
    /\ pc = "error"
    /\ i = 1
    /\ Get(counts, "command") = 1
    /\ Len(threads) = 1
    /\ threads[1].status = "OSError"

(***************************************************************************)
(* C18: swap_counts counts the placeholders that were resolved: a call     *)
(* that copies a node or launches a command adds, for every name, the      *)
(* number of {name} tokens it replaced by a value (in the path, in the     *)
(* lines of a text file with placeholders, in the command), and a call     *)
(* that fails because a placeholder is missing adds nothing.               *)
(***************************************************************************)
\* how many {name} tokens the string s holds
TokenCount(s, name) ==
    Cardinality({ k \in 1..Len(s) :
                    /\ k + Len(name) + 1 <= Len(s)
                    /\ SubSeq(s, k, k + Len(name) + 1) = <<"{">> \o name \o <<"}">> })

RECURSIVE TokenCountLines(_, _, _)
TokenCountLines(lines, k, name) ==
    IF k > Len(lines) THEN 0
    ELSE TokenCount(lines[k], name) + TokenCountLines(lines, k + 1, name)

\* the tokens of name the call the next step makes has to replace
TokensOfStep(name) ==
    IF pc = "commands" THEN TokenCount(runner.command, name)
    ELSE TokenCount(with_name(Head(todo).path, basename(Head(todo).src)), name)
         + ( IF FileStep /\ ContentPlaceholders(fs, Head(todo).src) # {}
             THEN TokenCountLines(NodeAt(fs, Head(todo).src).lines, 1, name)
             ELSE 0 )

C18_SwapCountsResolved ==
    [][ ( FileStep \/ DirStep \/ (pc = "commands" /\ i' # i) \/ (pc = "commands" /\ pc' = "error") )
        => /\ err' = "none" =>
                \A name \in DOMAIN swap_counts' :
                    Get(swap_counts', name) = Get(swap_counts, name) + TokensOfStep(name)
           /\ err' \in MissingErrors => swap_counts' = swap_counts
      ]_vars

(***************************************************************************)
(* C19: the File of a text file records the indices of exactly the lines   *)
(* that hold a {name} token, never a line without one, and its set of      *)
(* placeholders is the union of the names matched on those lines.          *)
(***************************************************************************)
C19_PlaceholderLinesExact ==
    \A f \in DOMAIN template.directory.files :
        is_text(fs0, f) =>
            LET lines == readlines(fs0, f)
                node == template.directory.files[f]
                recorded == { node._place_holder_lines[k] :
                                k \in 1..Len(node._place_holder_lines) }
            IN  /\ recorded = { k \in 1..Len(lines) : Placeholders(lines[k]) # {} }
                /\ node._placeholders = UNION { Placeholders(lines[k]) : k \in recorded }

(***************************************************************************)
(* C20: the copy of a text file with placeholders changes nothing but the  *)
(* {name} tokens: a brace that is not part of a token does not make the    *)
(* copy fail, a line without a token is written as it is, and in a line    *)
(* with tokens everything around them is kept.                             *)
(***************************************************************************)
C20_OnlyTokensChange ==
    [][ ( /\ FileStep
          /\ IsTextFile(fs, Head(todo).src)
          /\ ContentPlaceholders(fs, Head(todo).src) # {}
          /\ ContentPlaceholders(fs, Head(todo).src) \subseteq DOMAIN cur
          /\ NoBraces(Head(todo).path)
          /\ NoBraces(basename(Head(todo).src)) )
        => LET t == Head(todo)
               lines == NodeAt(fs, t.src).lines
               copy == NodeAt(fs', with_name(t.path, basename(t.src))).lines
           IN  /\ err' = "none"
               /\ Len(copy) = Len(lines)
               /\ \A k \in 1..Len(lines) :
                     IF Placeholders(lines[k]) = {} THEN copy[k] = lines[k]
                     ELSE copy[k] = Substituted(lines[k], cur)
      ]_vars

(***************************************************************************)
(* C21: when a call of the copy for index k fails on a missing             *)
(* placeholder, make_copies ends there: the loop takes no later index, no  *)
(* call of copy k is left to make, and neither the failing call nor        *)
(* anything after it removes or changes a node that was there (what the    *)
(* earlier copies and copy k wrote stays).                                 *)
(***************************************************************************)
C21_AbortsWithoutRollback ==
    [][ /\ (pc = "loop" /\ err' \in MissingErrors) =>
              /\ pc' = "error"
              /\ todo' = <<>>
              /\ i' = i
              /\ calls' = calls
              /\ \A q \in DOMAIN fs : q \in DOMAIN fs' /\ fs'[q] = fs[q]
        /\ (entry \in {"Template", "copies_main"} /\ err \in MissingErrors) =>
              /\ pc' = "error"
              /\ i' = i
              /\ calls' = calls
              /\ fs' = fs ]_vars

\* the copy for index 1 failed after the copy for index 0 returned and after
\* it wrote a node of its own; what copy 0 left is still there
C21_Witness ==
    /\ pc = "error"
    /\ err \in MissingErrors
    /\ i = 2
    /\ Len(calls) = 2
    /\ Len(snaps) = 1
    /\ fs # snaps[1]
    /\ snaps[1] # fs0
    /\ \A q \in DOMAIN snaps[1] : q \in DOMAIN fs

(***************************************************************************)
(* C22: the directory a node is copied into is used as it was passed in.   *)
(* When that path has a brace, and the node's own name substitutes without *)
(* trouble, and the node is a directory or a regular file with no brace in *)
(* its text, then the call succeeds and the copy is in that directory,     *)
(* under the node's substituted name.                                      *)
(***************************************************************************)
C22_ParentPathVerbatim ==
    [][ ( /\ FileStep \/ DirStep
          /\ ~NoBraces(Head(todo).path)
          /\ Placeholders(basename(Head(todo).src)) \subseteq DOMAIN cur
          /\ format(basename(Head(todo).src), cur)
                = Ok(Substituted(basename(Head(todo).src), cur))
          /\ FileStep =>
                /\ IsRegular(fs, Head(todo).src)
                /\ IsTextFile(fs, Head(todo).src) =>
                      \A k \in 1..Len(NodeAt(fs, Head(todo).src).lines) :
                          NoBraces(NodeAt(fs, Head(todo).src).lines[k]) )
        => LET dest == DestOf(Head(todo).src, Head(todo).path, cur)
           IN  /\ pc' = "loop"
               /\ err' = "none"
               /\ Exists(fs', LReal(fs', dest))
               /\ DirStep => isdir(fs', dest)
               /\ FileStep => IsRegular(fs', dest) ]_vars

(***************************************************************************)
(* C23: run_command_for_all_swaps of a command that is not empty, with a   *)
(* plan whose lists all have N values and that has a value for every       *)
(* placeholder of the command, does not raise and starts one thread per    *)
(* index, in index order: the threads started so far are those of the      *)
(* indices the loop has taken, the k-th running the command with every     *)
(* {name} token replaced by the k-th value of name, and there are N of     *)
(* them once the loop has ended.  (Nothing is said of the order in which   *)
(* the threads finish.)                                                    *)
(***************************************************************************)
C23_ThreadsInIndexOrder ==
    ( /\ entry \in {"run_main", "CommandRunner"}
      /\ pc \in {"commands", "waiting", "done", "error"}
      /\ runner.command # <<>>
      /\ args.swaps # <<>>
      /\ Cardinality(GivenLengths) = 1
      /\ Placeholders(runner.command) \subseteq {args.swaps[k].key : k \in 1..Len(args.swaps)} )
    => /\ pc # "error"
       /\ Len(threads) = i
       /\ \A k \in 1..Len(threads) :
             threads[k].command = Substituted(runner.command, maps[k])
       /\ pc \in {"waiting", "done"} =>
             \A n \in GivenLengths : Len(threads) = n

\* the lists a swapfile was asked for, by key
GivenLists ==
    [key \in {args.swaps[k].key : k \in 1..Len(args.swaps)} |->
        args.swaps[CHOOSE k \in 1..Len(args.swaps) : args.swaps[k].key = key].value.list]

\* the product of the lengths of the lists from the k-th on
RECURSIVE ProductOfLengths(_)
ProductOfLengths(k) ==
    IF k > Len(args.swaps) THEN 1
    ELSE Len(args.swaps[k].value.list) * ProductOfLengths(k + 1)

\* the combinations: one value of its list for every key
Combinations ==
    { c \in [DOMAIN GivenLists ->
               UNION { {GivenLists[key][k] : k \in 1..Len(GivenLists[key])} :
                       key \in DOMAIN GivenLists }] :
        \A key \in DOMAIN GivenLists :
            \E k \in 1..Len(GivenLists[key]) : c[key] = GivenLists[key][k] }

(***************************************************************************)
(* C24: get_swap_combos of independent lists (no list holds a value twice) *)
(* has a list for every key of its input and no other, every list as long  *)
(* as the product of the lengths of the input's lists, and each            *)
(* combination of one value per key is, at exactly one position, what the  *)
(* lists hold at that position.                                            *)
(***************************************************************************)
C24_FullCrossProduct ==
    swapfile.dumped =>
        /\ DOMAIN swapfile.content = DOMAIN GivenLists
        /\ \A key \in DOMAIN GivenLists :
              Len(swapfile.content[key].list) = ProductOfLengths(1)
        /\ \A c \in Combinations :
              Cardinality({ n \in 1..ProductOfLengths(1) :
                              \A key \in DOMAIN GivenLists :
                                  swapfile.content[key].list[n] = c[key] }) = 1

====
